---------------------------- MODULE Spec2Model ----------------------------
(***************************************************************************)
(* A model of xous-semver (src/src/lib.rs): the SemVer value, its 16-byte  *)
(* little-endian record (From / Into), its ordering (Ord, PartialOrd), its *)
(* equality (PartialEq), and the text forms (from_str, to_string).         *)
(*                                                                         *)
(* Number representation.  TLC's integers are 32-bit signed, so a u32 is   *)
(* kept as a pair <<hi, lo>> of 16-bit halves (value hi * 2^16 + lo) and a *)
(* u64 as four 16-bit limbs, most significant first.  A u16 is an integer  *)
(* in 0 .. 65535.  An Option<T> is <<>> (None) or <<x>> (Some(x)).  A str  *)
(* is a sequence of one-character strings; the modelled inputs are ASCII.  *)
(***************************************************************************)
EXTENDS Integers, Sequences, FiniteSets

VARIABLES
    pc,      \* the operation applied last ("start" before any)
    n,       \* how many operations have been applied
    src,     \* which input the run started from: "semver", "bytes", "str", "pair"
    self,    \* the SemVer the operations act on (the receiver)
    other,   \* the right-hand operand of cmp / partial_cmp / eq
    bytes,   \* the [u8; 16] record
    revstr,  \* the string handed to from_str / returned by to_string
    parsed,  \* the Result returned by from_str
    ord,     \* the Option<Ordering> returned by cmp / partial_cmp (<<>> before)
    equal,   \* the Option<bool> returned by eq (<<>> before)
    orig     \* the inputs as drawn, kept to state the round trips

vars == <<pc, n, src, self, other, bytes, revstr, parsed, ord, equal, orig>>

----------------------------------------------------------------------------
(* Bounds of the model *)

\* How many conversions one run chains.
MaxOps == 4

\* How many trailing whitespace characters an input string carries at most.
MaxTrail == 1

----------------------------------------------------------------------------
(* Option, Result, fixed-width integers *)

None == <<>>
Some(x) == <<x>>
is_some(o) == o # <<>>
unwrap_or(o, d) == IF o = <<>> THEN d ELSE o[1]

Ok(v) == [ok |-> TRUE, val |-> <<v>>, err |-> ""]
Err(msg) == [ok |-> FALSE, val |-> <<>>, err |-> msg]

\* u32 literals as <<hi, lo>>
U32(hi, lo) == <<hi, lo>>
U32Zero == U32(0, 0)
U32One == U32(0, 1)

\* u16::to_le_bytes / u16::from_le_bytes
U16ToLeBytes(x) == <<x % 256, x \div 256>>
U16FromLeBytes(b) == b[1] + 256 * b[2]

\* u32::to_le_bytes / u32::from_le_bytes
U32ToLeBytes(w) == <<w[2] % 256, w[2] \div 256, w[1] % 256, w[1] \div 256>>
U32FromLeBytes(b) == U32(b[3] + 256 * b[4], b[1] + 256 * b[2])

\* ser[lo..hi].copy_from_slice(&s), lo a 0-based offset
CopyFromSlice(ser, lo, s) ==
    [i \in 1..Len(ser) |->
        IF i > lo /\ i <= lo + Len(s) THEN s[i - lo] ELSE ser[i]]

\* &bytes[lo..hi], 0-based and half-open as in Rust
Slice(b, lo, hi) == SubSeq(b, lo + 1, hi)

\* [0u8; 16]
ZeroBytes == [i \in 1..16 |-> 0]

----------------------------------------------------------------------------
(* struct SemVer *)

SemVer(maj, min, rev, extra, commit) ==
    [maj |-> maj, min |-> min, rev |-> rev, extra |-> extra, commit |-> commit]

----------------------------------------------------------------------------
(* impl From<[u8; 16]> for SemVer, impl From<&[u8; 16]> for SemVer *)

FromBitZeroOnly(b) ==
    LET has_commit == U32FromLeBytes(Slice(b, 12, 16))
    IN  SemVer(U16FromLeBytes(Slice(b, 0, 2)),
               U16FromLeBytes(Slice(b, 2, 4)),
               U16FromLeBytes(Slice(b, 4, 6)),
               U16FromLeBytes(Slice(b, 6, 8)),
               IF has_commit[2] % 2 # 0
                   THEN Some(U32FromLeBytes(Slice(b, 8, 12)))
                   ELSE None)

From(b) ==
    LET has_commit == U32FromLeBytes(Slice(b, 12, 16))
    IN  SemVer(U16FromLeBytes(Slice(b, 0, 2)),
               U16FromLeBytes(Slice(b, 2, 4)),
               U16FromLeBytes(Slice(b, 4, 6)),
               U16FromLeBytes(Slice(b, 6, 8)),
               IF has_commit # U32Zero
                   THEN Some(U32FromLeBytes(Slice(b, 8, 12)))
                   ELSE None)

FromRef(b) ==
    LET has_commit == U32FromLeBytes(Slice(b, 12, 16))
    IN  SemVer(U16FromLeBytes(Slice(b, 0, 2)),
               U16FromLeBytes(Slice(b, 2, 4)),
               U16FromLeBytes(Slice(b, 4, 6)),
               U16FromLeBytes(Slice(b, 6, 8)),
               IF has_commit # U32Zero
                   THEN Some(U32FromLeBytes(Slice(b, 8, 12)))
                   ELSE None)

----------------------------------------------------------------------------
(* impl Into<[u8; 16]> for SemVer, impl Into<[u8; 16]> for &SemVer *)

IntoFlagFromValue(v) ==
    LET ser0 == ZeroBytes
        ser1 == CopyFromSlice(ser0, 0, U16ToLeBytes(v.maj))
        ser2 == CopyFromSlice(ser1, 2, U16ToLeBytes(v.min))
        ser3 == CopyFromSlice(ser2, 4, U16ToLeBytes(v.rev))
        ser4 == CopyFromSlice(ser3, 6, U16ToLeBytes(v.extra))
        ser5 == CopyFromSlice(ser4, 8, U32ToLeBytes(unwrap_or(v.commit, U32Zero)))
    IN  CopyFromSlice(ser5, 12,
            U32ToLeBytes(IF unwrap_or(v.commit, U32Zero) # U32Zero
                             THEN U32One ELSE U32Zero))

Into(v) ==
    LET ser0 == ZeroBytes
        ser1 == CopyFromSlice(ser0, 0, U16ToLeBytes(v.maj))
        ser2 == CopyFromSlice(ser1, 2, U16ToLeBytes(v.min))
        ser3 == CopyFromSlice(ser2, 4, U16ToLeBytes(v.rev))
        ser4 == CopyFromSlice(ser3, 6, U16ToLeBytes(v.extra))
        ser5 == CopyFromSlice(ser4, 8, U32ToLeBytes(unwrap_or(v.commit, U32Zero)))
    IN  CopyFromSlice(ser5, 12,
            U32ToLeBytes(IF is_some(v.commit) THEN U32One ELSE U32Zero))

IntoRefBigEndianCommit(v) ==
    LET ser0 == ZeroBytes
        ser1 == CopyFromSlice(ser0, 0, U16ToLeBytes(v.maj))
        ser2 == CopyFromSlice(ser1, 2, U16ToLeBytes(v.min))
        ser3 == CopyFromSlice(ser2, 4, U16ToLeBytes(v.rev))
        ser4 == CopyFromSlice(ser3, 6, U16ToLeBytes(v.extra))
        le   == U32ToLeBytes(unwrap_or(v.commit, U32Zero))
        ser5 == CopyFromSlice(ser4, 8, <<le[4], le[3], le[2], le[1]>>)
    IN  CopyFromSlice(ser5, 12,
            U32ToLeBytes(IF is_some(v.commit) THEN U32One ELSE U32Zero))

IntoRef(v) ==
    LET ser0 == ZeroBytes
        ser1 == CopyFromSlice(ser0, 0, U16ToLeBytes(v.maj))
        ser2 == CopyFromSlice(ser1, 2, U16ToLeBytes(v.min))
        ser3 == CopyFromSlice(ser2, 4, U16ToLeBytes(v.rev))
        ser4 == CopyFromSlice(ser3, 6, U16ToLeBytes(v.extra))
        ser5 == CopyFromSlice(ser4, 8, U32ToLeBytes(unwrap_or(v.commit, U32Zero)))
    IN  CopyFromSlice(ser5, 12,
            U32ToLeBytes(IF is_some(v.commit) THEN U32One ELSE U32Zero))

----------------------------------------------------------------------------
(* u64 arithmetic of Ord::cmp, on four 16-bit limbs, most significant first *)

\* (x as u64) for a u16 x
U16AsU64(x) == <<0, 0, 0, x>>

\* x << k for k a multiple of 16: the limbs move up, the top ones fall off
U64Shl(x, k) ==
    [i \in 1..4 |-> IF i + (k \div 16) <= 4 THEN x[i + (k \div 16)] ELSE 0]

\* bitwise or of two 16-bit limbs
RECURSIVE BitOr(_, _, _)
BitOr(a, b, bits) ==
    IF bits = 0 THEN 0
    ELSE IF a = 0 THEN b
    ELSE IF b = 0 THEN a
    ELSE (IF a % 2 = 1 \/ b % 2 = 1 THEN 1 ELSE 0)
         + 2 * BitOr(a \div 2, b \div 2, bits - 1)

\* x | y
U64Or(x, y) == [i \in 1..4 |-> BitOr(x[i], y[i], 16)]

\* u64::cmp
RECURSIVE LimbCmp(_, _, _)
LimbCmp(x, y, i) ==
    IF i > Len(x) THEN "Equal"
    ELSE IF x[i] < y[i] THEN "Less"
    ELSE IF x[i] > y[i] THEN "Greater"
    ELSE LimbCmp(x, y, i + 1)

U64Cmp(x, y) == LimbCmp(x, y, 1)

----------------------------------------------------------------------------
(* impl Ord for SemVer, impl PartialOrd for SemVer, impl PartialEq for SemVer *)

\* The packed u64 of cmp: maj << 48 | min << 32 | rev << 16 | extra
Packed(v) ==
    U64Or(U64Or(U64Or(U64Shl(U16AsU64(v.maj), 48),
                      U64Shl(U16AsU64(v.min), 32)),
                U64Shl(U16AsU64(v.rev), 16)),
          U16AsU64(v.extra))

cmpMinRevSwapped(a, b) ==
    LET pack(v) ==
            U64Or(U64Or(U64Or(U64Shl(U16AsU64(v.maj), 48),
                              U64Shl(U16AsU64(v.min), 16)),
                        U64Shl(U16AsU64(v.rev), 32)),
                  U16AsU64(v.extra))
    IN  U64Cmp(pack(a), pack(b))

cmp(a, b) ==
    LET mine == Packed(a)
        theirs == Packed(b)
    IN  U64Cmp(mine, theirs)

partial_cmp(a, b) == Some(cmp(a, b))

eqIgnoringCommit(a, b) ==
    /\ a.maj = b.maj
    /\ a.min = b.min
    /\ a.rev = b.rev
    /\ a.extra = b.extra

eq(a, b) ==
    /\ a.maj = b.maj
    /\ a.min = b.min
    /\ a.rev = b.rev
    /\ a.extra = b.extra
    /\ a.commit = b.commit

----------------------------------------------------------------------------
(* str helpers used by from_str: trim_end, strip_prefix, split, len, slicing *)

\* char::is_whitespace, on the characters the inputs use
IsWhitespace(c) == c \in {" ", "\n", "\t", "\r"}

\* str::trim_end
RECURSIVE trim_end(_)
trim_end(s) ==
    IF Len(s) > 0 /\ IsWhitespace(s[Len(s)])
        THEN trim_end(SubSeq(s, 1, Len(s) - 1))
        ELSE s

\* str::strip_prefix(char): Some(rest) when s starts with c, else None
strip_prefix(s, c) ==
    IF Len(s) > 0 /\ s[1] = c THEN Some(SubSeq(s, 2, Len(s))) ELSE None

\* str::split(['.', '-']).collect(): every separator ends a field, so k
\* separators give k + 1 fields, empty ones included
RECURSIVE SplitFrom(_, _, _, _)
SplitFrom(s, i, cur, acc) ==
    IF i > Len(s) THEN Append(acc, cur)
    ELSE IF s[i] \in {".", "-"} THEN SplitFrom(s, i + 1, <<>>, Append(acc, cur))
    ELSE SplitFrom(s, i + 1, Append(cur, s[i]), acc)

split(s) == SplitFrom(s, 1, <<>>, <<>>)

----------------------------------------------------------------------------
(* u16::from_str_radix and u32::from_str_radix, as from_str calls them.     *)
(* The result is Some(value) for Ok(value) and None for any Err: from_str   *)
(* replaces the error by its own message (map_err).                        *)

\* char::to_digit(radix): the digit's value, or -1 when c is no digit
to_digit(c, radix) ==
    LET d == CASE c = "0" -> 0  [] c = "1" -> 1  [] c = "2" -> 2  [] c = "3" -> 3
               [] c = "4" -> 4  [] c = "5" -> 5  [] c = "6" -> 6  [] c = "7" -> 7
               [] c = "8" -> 8  [] c = "9" -> 9
               [] c \in {"a", "A"} -> 10  [] c \in {"b", "B"} -> 11
               [] c \in {"c", "C"} -> 12  [] c \in {"d", "D"} -> 13
               [] c \in {"e", "E"} -> 14  [] c \in {"f", "F"} -> 15
               [] OTHER -> -1
    IN  IF d < radix THEN d ELSE -1

\* The digits after an optional sign: None for an empty string, a lone sign,
\* or a '-' (the types are unsigned)
Digits(s) ==
    IF Len(s) = 0 THEN None
    ELSE IF s[1] \in {"+", "-"} /\ Len(s) = 1 THEN None
    ELSE IF s[1] = "+" THEN Some(SubSeq(s, 2, Len(s)))
    ELSE Some(s)

\* result = result.checked_mul(radix)?.checked_add(digit)? over the digits
RECURSIVE U16Accumulate(_, _, _, _)
U16Accumulate(ds, i, radix, acc) ==
    IF i > Len(ds) THEN Some(acc)
    ELSE IF to_digit(ds[i], radix) < 0 THEN None
    ELSE IF acc * radix + to_digit(ds[i], radix) > 65535 THEN None
    ELSE U16Accumulate(ds, i + 1, radix, acc * radix + to_digit(ds[i], radix))

U16FromStrRadix(s, radix) ==
    IF Digits(s) = None THEN None
    ELSE U16Accumulate(Digits(s)[1], 1, radix, 0)

\* the same on a u32 kept as <<hi, lo>>
RECURSIVE U32Accumulate(_, _, _, _)
U32Accumulate(ds, i, radix, acc) ==
    IF i > Len(ds) THEN Some(acc)
    ELSE IF to_digit(ds[i], radix) < 0 THEN None
    ELSE LET low == acc[2] * radix + to_digit(ds[i], radix)
             high == acc[1] * radix + (low \div 65536)
         IN  IF high > 65535 THEN None
             ELSE U32Accumulate(ds, i + 1, radix, U32(high, low % 65536))

U32FromStrRadix(s, radix) ==
    IF Digits(s) = None THEN None
    ELSE U32Accumulate(Digits(s)[1], 1, radix, U32Zero)

----------------------------------------------------------------------------
(* SemVer::from_str *)

FromStrExtraNoCommitOnly(ver) ==
    IF Len(ver) = 5 \/ Len(ver) = 4 THEN U16FromStrRadix(ver[4], 10)
    ELSE Some(0)

\* the `extra` binding: Some(value), or None when its parse failed
FromStrExtra(ver) ==
    IF Len(ver) = 5 THEN U16FromStrRadix(ver[4], 10)
    ELSE IF Len(ver) = 4 THEN
        IF is_some(strip_prefix(ver[4], "g")) THEN Some(0)
        ELSE U16FromStrRadix(ver[4], 10)
    ELSE Some(0)

\* the `commit` field: Some(Option<u32>), or None when the hex parse failed
\* (&c[..8] slices by bytes; the inputs are ASCII, so it is the first eight
\* characters)
FromStrCommit(ver) ==
    LET last == strip_prefix(ver[Len(ver)], "g")
    IN  IF is_some(last) THEN
            LET c == last[1]
                trunc == IF Len(c) > 8 THEN SubSeq(c, 1, 8) ELSE c
                hex == U32FromStrRadix(trunc, 16)
            IN  IF is_some(hex) THEN Some(Some(hex[1])) ELSE None
        ELSE Some(None)

\* from_str after the prefix is stripped and the fields are split
FromStrFields(ver) ==
    IF Len(ver) # 4 /\ Len(ver) # 5 /\ Len(ver) # 3
        THEN Err("semver string has wrong number of fields")
    ELSE LET extra == FromStrExtra(ver)
             maj == U16FromStrRadix(ver[1], 10)
             min == U16FromStrRadix(ver[2], 10)
             rev == U16FromStrRadix(ver[3], 10)
             commit == FromStrCommit(ver)
         IN  IF extra = None THEN Err("error parsing extra")
             ELSE IF maj = None THEN Err("error parsing maj")
             ELSE IF min = None THEN Err("error parsing min")
             ELSE IF rev = None THEN Err("error parsing rev")
             ELSE IF commit = None THEN Err("error parsing commit")
             ELSE Ok(SemVer(maj[1], min[1], rev[1], extra[1], commit[1]))

from_strOptionalPrefix(s) ==
    LET trimmed == trim_end(s)
        stripped == strip_prefix(trimmed, "v")
    IN  IF stripped = None THEN FromStrFields(split(trimmed))
        ELSE FromStrFields(split(stripped[1]))

from_str(s) ==
    LET stripped == strip_prefix(trim_end(s), "v")
    IN  IF stripped = None THEN Err("semver does not start with 'v'!")
        ELSE FromStrFields(split(stripped[1]))

----------------------------------------------------------------------------
(* SemVer::to_string: format!("{}", u16) and format!("{:x}", u32) *)

DigitChar(d) ==
    <<"0", "1", "2", "3", "4", "5", "6", "7", "8", "9",
      "a", "b", "c", "d", "e", "f">>[d + 1]

\* Display for u16: decimal, no padding, "0" for zero
RECURSIVE FmtDec(_)
FmtDec(x) ==
    IF x < 10 THEN <<DigitChar(x)>>
    ELSE Append(FmtDec(x \div 10), DigitChar(x % 10))

\* LowerHex for u32: the low nibble is taken and the value shifted right
\* by four until it is zero; no padding, "0" for zero
RECURSIVE FmtHex(_)
FmtHex(w) ==
    LET digit == w[2] % 16
        rest == U32(w[1] \div 16, (w[2] \div 16) + (w[1] % 16) * 4096)
    IN  IF rest = U32Zero THEN <<DigitChar(digit)>>
        ELSE Append(FmtHex(rest), DigitChar(digit))

to_stringNoCommitMarker(v) ==
    IF is_some(v.commit)
        THEN <<"v">> \o FmtDec(v.maj) \o <<".">> \o FmtDec(v.min) \o <<".">>
             \o FmtDec(v.rev) \o <<"-">> \o FmtDec(v.extra)
             \o <<"-">> \o FmtHex(v.commit[1])
        ELSE <<"v">> \o FmtDec(v.maj) \o <<".">> \o FmtDec(v.min) \o <<".">>
             \o FmtDec(v.rev) \o <<"-">> \o FmtDec(v.extra)

to_string(v) ==
    IF is_some(v.commit)
        THEN <<"v">> \o FmtDec(v.maj) \o <<".">> \o FmtDec(v.min) \o <<".">>
             \o FmtDec(v.rev) \o <<"-">> \o FmtDec(v.extra)
             \o <<"-", "g">> \o FmtHex(v.commit[1])
        ELSE <<"v">> \o FmtDec(v.maj) \o <<".">> \o FmtDec(v.min) \o <<".">>
             \o FmtDec(v.rev) \o <<"-">> \o FmtDec(v.extra)

----------------------------------------------------------------------------
(* The inputs the runs draw *)

\* u16 field values: zero, the fields of the tested "v0.9.8-760", the maximum
U16Samples == {0, 8, 9, 760, 65535}

\* commits: absent, 0, 1, 0x123abc, 0xabcd1234, 0xffffffff
CommitSamples ==
    {None, Some(U32(0, 0)), Some(U32(0, 1)), Some(U32(18, 15036)),
     Some(U32(43981, 4660)), Some(U32(65535, 65535))}

SemVerSamples ==
    {SemVer(a, b, c, d, k) :
        a \in U16Samples, b \in U16Samples, c \in U16Samples,
        d \in U16Samples, k \in CommitSamples}

\* 16-byte records given field by field: the four u16 words, the commit
\* word, and a presence word that may hold any bits
WordSamples == {<<0, 0>>, <<248, 2>>, <<255, 255>>}
CommitWordSamples == {<<0, 0, 0, 0>>, <<52, 18, 205, 171>>, <<255, 255, 255, 255>>}
PresenceWordSamples ==
    {<<0, 0, 0, 0>>, <<1, 0, 0, 0>>, <<2, 0, 0, 0>>, <<0, 1, 0, 0>>,
     <<0, 0, 0, 128>>, <<255, 255, 255, 255>>}

ByteSamples ==
    {a \o b \o c \o d \o k \o f :
        a \in WordSamples, b \in WordSamples, c \in WordSamples,
        d \in WordSamples, k \in CommitWordSamples, f \in PresenceWordSamples}

\* operands of the comparisons
OrdU16Samples == {0, 1, 65535}
OrdCommitSamples == {None, Some(U32(0, 0)), Some(U32(43981, 4660))}

OrdMidSamples == {0, 65535}

OrdSamples ==
    {SemVer(a, b, c, d, k) :
        a \in OrdU16Samples, b \in OrdMidSamples, c \in OrdMidSamples,
        d \in OrdU16Samples, k \in OrdCommitSamples}

\* strings, given as fields and the separators between them
NumToks == {<<"0">>, <<"9">>, <<"6", "5", "5", "3", "5">>, <<"6", "5", "5", "3", "6">>}

TailToks ==
    {<<"7", "6", "0">>,
     <<"g", "a", "b", "c", "d", "1", "2", "3", "4">>,
     <<"g", "1", "2", "3", "4">>,
     <<"g", "A", "B", "C", "D", "1", "2", "3", "4">>,
     <<"g", "0">>,
     <<"g">>,
     <<"g", "1", "2", "3", "4", "5", "6", "7", "8", "9">>,
     <<"a", "b", "c", "d", "1", "2", "3", "4">>,
     <<"g", "x", "y", "z">>,
     <<>>}

DistToks == {<<"7", "6", "0">>, <<"x">>}

CommitToks ==
    {<<"g", "a", "b", "c", "d", "1", "2", "3", "4">>,
     <<"g", "0">>,
     <<"a", "b", "c", "d", "1", "2", "3", "4">>,
     <<"g", "1", "2", "3", "4", "5", "6", "7", "8", "9">>,
     <<"7", "6", "0">>}

Seps == {".", "-"}

FieldSamples ==
    {<<a, b, c>> : a \in NumToks, b \in NumToks, c \in NumToks}
    \cup {<<a, b, c, d>> : a \in NumToks, b \in NumToks, c \in NumToks,
                            d \in TailToks}
    \cup {<<a, b, c, d, e>> : a \in NumToks, b \in NumToks, c \in NumToks,
                               d \in DistToks, e \in CommitToks}
    \cup {<<<<"1">>, <<"2">>, <<"3">>, <<"4">>, <<"5">>, <<"g", "6">>>>}

SepSamples(k) ==
    IF k = 5 THEN {<<".", ".", "-", "-", "-">>}
    ELSE [1..k -> Seps]

HeadSamples == {<<>>, <<"v">>}
TrailSamples == {[i \in 1..k |-> "\n"] : k \in 0..MaxTrail}

\* the fields with the separators between them
RECURSIVE Join(_, _)
Join(toks, seps) ==
    IF Len(toks) = 1 THEN toks[1]
    ELSE toks[1] \o <<seps[1]>> \o Join(Tail(toks), Tail(seps))

Assemble(i) == i.head \o Join(i.toks, i.seps) \o i.trail

StrSamples ==
    UNION {[head : HeadSamples, toks : {f}, seps : SepSamples(Len(f) - 1),
            trail : TrailSamples] : f \in FieldSamples}

ZeroSemVer == SemVer(0, 0, 0, 0, None)

----------------------------------------------------------------------------
(* The codec: From and Into chained from a SemVer or from a byte record *)

InitCodec ==
    /\ pc = "start"
    /\ n = 0
    /\ src \in {"semver", "bytes"}
    /\ self \in IF src = "semver" THEN SemVerSamples ELSE {ZeroSemVer}
    /\ bytes \in IF src = "bytes" THEN ByteSamples ELSE {ZeroBytes}
    /\ other = ZeroSemVer
    /\ revstr = <<>>
    /\ parsed = Err("")
    /\ ord = None
    /\ equal = None
    /\ orig = [self |-> self, bytes |-> bytes]

HaveSemVer == src = "semver" \/ pc # "start"
HaveBytes == src = "bytes" \/ pc # "start"

\* let b: [u8; 16] = v.into()
IntoOwned ==
    /\ HaveSemVer
    /\ n < MaxOps
    /\ bytes' = Into(self)
    /\ pc' = "into"
    /\ n' = n + 1
    /\ UNCHANGED <<src, self, other, revstr, parsed, ord, equal, orig>>

\* let b: [u8; 16] = (&v).into()
IntoBorrowed ==
    /\ HaveSemVer
    /\ n < MaxOps
    /\ bytes' = IntoRef(self)
    /\ pc' = "into_ref"
    /\ n' = n + 1
    /\ UNCHANGED <<src, self, other, revstr, parsed, ord, equal, orig>>

\* SemVer::from(b)
FromOwned ==
    /\ HaveBytes
    /\ n < MaxOps
    /\ self' = From(bytes)
    /\ pc' = "from"
    /\ n' = n + 1
    /\ UNCHANGED <<src, other, bytes, revstr, parsed, ord, equal, orig>>

\* SemVer::from(&b)
FromBorrowed ==
    /\ HaveBytes
    /\ n < MaxOps
    /\ self' = FromRef(bytes)
    /\ pc' = "from_ref"
    /\ n' = n + 1
    /\ UNCHANGED <<src, other, bytes, revstr, parsed, ord, equal, orig>>

NextCodec == IntoOwned \/ IntoBorrowed \/ FromOwned \/ FromBorrowed

SpecCodec == InitCodec /\ [][NextCodec]_vars

----------------------------------------------------------------------------
(* The comparisons of two SemVer: cmp, partial_cmp, eq *)

InitOrd ==
    /\ pc = "start"
    /\ n = 0
    /\ src = "pair"
    /\ self \in OrdSamples
    /\ other \in OrdSamples
    /\ bytes = ZeroBytes
    /\ revstr = <<>>
    /\ parsed = Err("")
    /\ ord = None
    /\ equal = None
    /\ orig = [self |-> self, other |-> other]

\* self.cmp(&other)
Cmp ==
    /\ pc # "cmp"
    /\ ord' = Some(cmp(self, other))
    /\ pc' = "cmp"
    /\ UNCHANGED <<n, src, self, other, bytes, revstr, parsed, equal, orig>>

\* self.partial_cmp(&other), which the operators <, <=, >, >= call
PartialCmp ==
    /\ pc # "partial_cmp"
    /\ ord' = partial_cmp(self, other)
    /\ pc' = "partial_cmp"
    /\ UNCHANGED <<n, src, self, other, bytes, revstr, parsed, equal, orig>>

\* self == other
Eq ==
    /\ pc # "eq"
    /\ equal' = Some(eq(self, other))
    /\ pc' = "eq"
    /\ UNCHANGED <<n, src, self, other, bytes, revstr, parsed, ord, orig>>

NextOrd == Cmp \/ PartialCmp \/ Eq

SpecOrd == InitOrd /\ [][NextOrd]_vars

----------------------------------------------------------------------------
(* The text forms: from_str of a string, and to_string then from_str *)

InitText ==
    /\ pc = "start"
    /\ n = 0
    /\ src \in {"str", "semver"}
    /\ orig \in IF src = "str" THEN StrSamples
                ELSE {[head |-> <<>>, toks |-> <<>>, seps |-> <<>>, trail |-> <<>>]}
    /\ revstr = IF src = "str" THEN Assemble(orig) ELSE <<>>
    /\ self \in IF src = "semver" THEN SemVerSamples ELSE {ZeroSemVer}
    /\ other = self
    /\ bytes = ZeroBytes
    /\ parsed = Err("")
    /\ ord = None
    /\ equal = None

\* v.to_string()
ToString ==
    /\ src = "semver"
    /\ pc = "start"
    /\ revstr' = to_string(self)
    /\ pc' = "to_string"
    /\ n' = n + 1
    /\ UNCHANGED <<src, self, other, bytes, parsed, ord, equal, orig>>

\* SemVer::from_str(&revstr)
FromStr ==
    /\ \/ src = "str" /\ pc = "start"
       \/ pc = "to_string"
    /\ parsed' = from_str(revstr)
    /\ pc' = "from_str"
    /\ n' = n + 1
    /\ UNCHANGED <<src, self, other, bytes, revstr, ord, equal, orig>>

NextText == ToString \/ FromStr

SpecText == InitText /\ [][NextText]_vars

----------------------------------------------------------------------------
(* Helpers of the properties: the layout, the order and the values of the  *)
(* text fields stated directly, not through the operators above            *)

\* the tested record of "v0.9.8-760-gabcd1234"
TestVersion == SemVer(0, 9, 8, 760, Some(U32(43981, 4660)))
TestBytes == <<0, 0, 9, 0, 8, 0, 248, 2, 52, 18, 205, 171, 1, 0, 0, 0>>

\* lexicographic order of (maj, min, rev, extra)
LexCmp(a, b) ==
    LET x == <<a.maj, a.min, a.rev, a.extra>>
        y == <<b.maj, b.min, b.rev, b.extra>>
        D == {i \in 1..4 : x[i] # y[i]}
    IN  IF D = {} THEN "Equal"
        ELSE LET k == CHOOSE i \in D : \A j \in D : i <= j
             IN  IF x[k] < y[k] THEN "Less" ELSE "Greater"

\* a byte record with the presence word normalised to 0 or 1 and the commit
\* word zeroed when the presence word is 0
Normalised(b) ==
    IF \A i \in 13..16 : b[i] = 0
        THEN SubSeq(b, 1, 8) \o <<0, 0, 0, 0, 0, 0, 0, 0>>
        ELSE SubSeq(b, 1, 12) \o <<1, 0, 0, 0>>

DecChars == <<"0", "1", "2", "3", "4", "5", "6", "7", "8", "9">>
HexLower == DecChars \o <<"a", "b", "c", "d", "e", "f">>
HexUpper == DecChars \o <<"A", "B", "C", "D", "E", "F">>

IsHexChar(c) == \E i \in 1..16 : c \in {HexLower[i], HexUpper[i]}
HexDigit(c) == (CHOOSE i \in 1..16 : c \in {HexLower[i], HexUpper[i]}) - 1
IsDecChar(c) == \E i \in 1..10 : c = DecChars[i]

\* the value of a digit string, digit by position
RECURSIVE Pow(_, _)
Pow(b, e) == IF e = 0 THEN 1 ELSE b * Pow(b, e - 1)

RECURSIVE PosSum(_, _, _)
PosSum(t, base, i) ==
    IF i > Len(t) THEN 0
    ELSE HexDigit(t[i]) * Pow(base, Len(t) - i) + PosSum(t, base, i + 1)

\* a decimal u16: one to five digits of value at most 65535
IsDecTok(t) ==
    /\ Len(t) \in 1..5
    /\ \A i \in 1..Len(t) : IsDecChar(t[i])
    /\ PosSum(t, 10, 1) <= 65535

DecValue(t) == PosSum(t, 10, 1)

\* a commit token: 'g' and one to eight hex digits
IsCommitTok(t) ==
    /\ Len(t) \in 2..9
    /\ t[1] = "g"
    /\ \A i \in 2..Len(t) : IsHexChar(t[i])

\* its value as <<hi, lo>>: the digits padded to eight, four to each half
CommitValue(t) ==
    LET h == Tail(t)
        padded == [i \in 1..(8 - Len(h)) |-> "0"] \o h
    IN  U32(PosSum(SubSeq(padded, 1, 4), 16, 1), PosSum(SubSeq(padded, 5, 8), 16, 1))

StartsWithG(t) == Len(t) > 0 /\ t[1] = "g"

\* an input "v" M sep m sep p ..., with nothing after it, whose first three
\* fields are decimal u16
PlainInput ==
    /\ src = "str"
    /\ pc = "from_str"
    /\ orig.head = <<"v">>
    /\ orig.trail = <<>>

DottedTriplet ==
    /\ PlainInput
    /\ orig.seps[1] = "." /\ orig.seps[2] = "."
    /\ \A i \in 1..3 : IsDecTok(orig.toks[i])

Triplet(extra, commit) ==
    SemVer(DecValue(orig.toks[1]), DecValue(orig.toks[2]), DecValue(orig.toks[3]),
           extra, commit)

----------------------------------------------------------------------------
(* The properties *)

\* C1: decoding the 16 bytes that encoding a SemVer v produced gives back v:
\* all five fields equal, Some(0) kept distinct from None, and equal under
\* the commit-sensitive ==.
RoundTripEncodeDecode ==
    (src = "semver" /\ pc \in {"from", "from_ref"}) =>
        /\ self = orig.self
        /\ eq(self, orig.self)

\* C1 witness: a SemVer with commit Some(0) has been encoded by value and
\* decoded by value, and still has commit Some(0).
RoundTripReached ==
    /\ src = "semver" /\ pc = "from" /\ n = 2
    /\ orig.self.commit = Some(U32Zero)
    /\ orig.self.extra = 760
    /\ self.commit = Some(U32Zero)
    /\ bytes[13] = 1

\* C2: cmp (and partial_cmp) is the lexicographic comparison of
\* (maj, min, rev, extra), maj most significant, and replacing the commit of
\* either operand by any other value leaves the result unchanged.
OrderingLexicographic ==
    /\ ord # None => ord = Some(LexCmp(self, other))
    /\ pc = "cmp" =>
        \A c1 \in OrdCommitSamples, c2 \in OrdCommitSamples :
            cmp([self EXCEPT !.commit = c1], [other EXCEPT !.commit = c2]) = ord[1]

\* C2 witness: cmp answered Less for operands that tie on maj, where self is
\* smaller in min but greater in rev and extra, and the commits differ.
OrderingReached ==
    /\ pc = "cmp" /\ ord = Some("Less")
    /\ self.maj = other.maj /\ self.min < other.min
    /\ self.rev > other.rev /\ self.extra > other.extra
    /\ self.commit # other.commit

\* C3: a == b exactly when maj, min, rev, extra and commit are all equal
\* (None differs from every Some); operands that agree on the four numbers
\* and differ in commit compare Equal and are not ==; a == b implies Equal.
EqualityCommitSensitive ==
    /\ equal # None =>
        (equal[1] <=> /\ self.maj = other.maj /\ self.min = other.min
                      /\ self.rev = other.rev /\ self.extra = other.extra
                      /\ (self.commit = None <=> other.commit = None)
                      /\ (self.commit # None /\ other.commit # None
                            => self.commit[1] = other.commit[1]))
    /\ (equal # None /\ ord # None) =>
        /\ equal[1] => ord[1] = "Equal"
        /\ (LexCmp(self, other) = "Equal" /\ self.commit # other.commit)
              => (ord[1] = "Equal" /\ ~equal[1])

\* C3 witness: both cmp and == were asked of operands with the same four
\* numbers, one with commit None and one with commit Some(0): Equal, not ==.
EqualityReached ==
    /\ ord = Some("Equal") /\ equal = Some(FALSE)
    /\ self.commit = None /\ other.commit = Some(U32Zero)
    /\ self.maj = 65535

\* C4: both encoders write maj, min, rev, extra little-endian at offsets 0, 2,
\* 4, 6, the commit value little-endian at 8 (zero when None), and at 12 the
\* little-endian word 1 when commit is Some (even Some(0)) and 0 when None;
\* they agree with each other and with the tested record.
EncodeLayout ==
    pc \in {"into", "into_ref"} =>
        LET c == IF self.commit = None THEN U32Zero ELSE self.commit[1]
        IN  /\ bytes[1] = self.maj % 256 /\ bytes[2] = self.maj \div 256
            /\ bytes[3] = self.min % 256 /\ bytes[4] = self.min \div 256
            /\ bytes[5] = self.rev % 256 /\ bytes[6] = self.rev \div 256
            /\ bytes[7] = self.extra % 256 /\ bytes[8] = self.extra \div 256
            /\ bytes[9] = c[2] % 256 /\ bytes[10] = c[2] \div 256
            /\ bytes[11] = c[1] % 256 /\ bytes[12] = c[1] \div 256
            /\ bytes[13] = (IF self.commit = None THEN 0 ELSE 1)
            /\ bytes[14] = 0 /\ bytes[15] = 0 /\ bytes[16] = 0
            /\ Len(bytes) = 16
            /\ \A i \in 1..16 : bytes[i] \in 0..255
            /\ Into(self) = bytes /\ IntoRef(self) = bytes
            /\ self = TestVersion => bytes = TestBytes

\* C4 witness: the by-reference encoder has produced the tested record of
\* "v0.9.8-760-gabcd1234".
EncodeReached ==
    /\ pc = "into_ref"
    /\ self = TestVersion
    /\ bytes = TestBytes

\* C5: decoding reads maj, min, rev, extra as the little-endian u16 at 0, 2, 4,
\* 6; commit is None exactly when bytes 12-15 are all zero, whatever bytes
\* 8-11 hold, and else Some of the little-endian u32 at 8; re-encoding a
\* decoded record changes it only by normalising the presence word and
\* zeroing an absent commit, and doing so again changes nothing.
DecodeTotal ==
    /\ pc \in {"from", "from_ref"} =>
        /\ self.maj = bytes[1] + 256 * bytes[2]
        /\ self.min = bytes[3] + 256 * bytes[4]
        /\ self.rev = bytes[5] + 256 * bytes[6]
        /\ self.extra = bytes[7] + 256 * bytes[8]
        /\ \A f \in {self.maj, self.min, self.rev, self.extra} : f \in 0..65535
        /\ self.commit = None <=> \A i \in 13..16 : bytes[i] = 0
        /\ self.commit # None =>
            self.commit = Some(U32(bytes[11] + 256 * bytes[12],
                                   bytes[9] + 256 * bytes[10]))
    /\ (src = "bytes" /\ pc \in {"into", "into_ref"}) =>
        bytes = Normalised(orig.bytes)

\* C5 witness: a record whose presence word has only its top bit set was
\* decoded to Some, re-encoded with presence word 1, and then decoded and
\* re-encoded once more.
DecodeReached ==
    /\ src = "bytes" /\ pc = "into" /\ n = 4
    /\ SubSeq(orig.bytes, 13, 16) = <<0, 0, 0, 128>>
    /\ self.commit = Some(U32(43981, 4660))
    /\ SubSeq(bytes, 13, 16) = <<1, 0, 0, 0>>

\* C6: for decimal u16 M, m, p, d and a commit C of one to eight hex digits,
\* "vM.m.p" parses to {M, m, p, 0, None}, "vM.m.p-d" to {M, m, p, d, None},
\* "vM.m.p-gC" to {M, m, p, 0, Some(C)} and "vM.m.p-d-gC" to
\* {M, m, p, d, Some(C)}; a single trailing token is the commit if and only
\* if it starts with 'g', and the distance otherwise.
ParseWellFormed ==
    /\ (DottedTriplet /\ Len(orig.toks) = 3) =>
        parsed = Ok(Triplet(0, None))
    /\ (DottedTriplet /\ Len(orig.toks) = 4 /\ orig.seps[3] = "-"
            /\ IsDecTok(orig.toks[4])) =>
        parsed = Ok(Triplet(DecValue(orig.toks[4]), None))
    /\ (DottedTriplet /\ Len(orig.toks) = 4 /\ orig.seps[3] = "-"
            /\ IsCommitTok(orig.toks[4])) =>
        parsed = Ok(Triplet(0, Some(CommitValue(orig.toks[4]))))
    /\ (DottedTriplet /\ Len(orig.toks) = 5 /\ orig.seps[3] = "-"
            /\ orig.seps[4] = "-" /\ IsDecTok(orig.toks[4])
            /\ IsCommitTok(orig.toks[5])) =>
        parsed = Ok(Triplet(DecValue(orig.toks[4]),
                            Some(CommitValue(orig.toks[5]))))
    /\ (src = "str" /\ pc = "from_str" /\ Len(orig.toks) = 4 /\ parsed.ok) =>
        /\ is_some(parsed.val[1].commit) <=> StartsWithG(orig.toks[4])
        /\ StartsWithG(orig.toks[4]) => parsed.val[1].extra = 0
        /\ (~StartsWithG(orig.toks[4]) /\ IsDecTok(orig.toks[4])) =>
              parsed.val[1].extra = DecValue(orig.toks[4])

\* C6 witness: "v0.9.65535-gABCD1234", a commit with no distance, has been
\* parsed to extra 0 and commit Some(0xabcd1234).
ParseReached ==
    /\ DottedTriplet /\ Len(orig.toks) = 4
    /\ orig.toks[4] = <<"g", "A", "B", "C", "D", "1", "2", "3", "4">>
    /\ parsed = Ok(SemVer(0, 9, 65535, 0, Some(U32(43981, 4660))))

\* C7 as stated: a string that parses with its leading 'v' parses to the same
\* SemVer with the 'v' removed.
LeadingVOptional ==
    (src = "str" /\ pc = "from_str" /\ orig.head = <<>>
        /\ from_str(<<"v">> \o revstr).ok) =>
        parsed = from_str(<<"v">> \o revstr)

\* C7 as amended: the leading 'v' is required.  A string that parses with
\* its leading 'v' is rejected with "semver does not start with 'v'!" once
\* the 'v' is removed.
LeadingVRequired ==
    (src = "str" /\ pc = "from_str" /\ orig.head = <<>>
        /\ from_str(<<"v">> \o revstr).ok) =>
        parsed = Err("semver does not start with 'v'!")

\* C7 witness: "0.9.0-760-gabcd1234" was rejected, and parses with a 'v'.
LeadingVReached ==
    /\ src = "str" /\ pc = "from_str" /\ orig.head = <<>>
    /\ Len(orig.toks) = 5
    /\ from_str(<<"v">> \o revstr).ok
    /\ ~parsed.ok

\* C8: for "vM.m.p-<distance>-<commit_str>", from_str returns an error
\* whenever commit_str does not start with 'g'.
MissingGPrefixRejected ==
    (PlainInput /\ Len(orig.toks) = 5
        /\ orig.seps = <<".", ".", "-", "-">>
        /\ ~StartsWithG(orig.toks[5])) =>
        ~parsed.ok

\* C9: from_str returns an error whenever a '-' stands between major and
\* minor or between minor and patch, or a '.' follows the patch number.
SeparatorsNotInterchangeable ==
    (PlainInput
        /\ \/ orig.seps[1] = "-"
           \/ orig.seps[2] = "-"
           \/ Len(orig.seps) >= 3 /\ orig.seps[3] = ".") =>
        ~parsed.ok

\* C10: from_str(v.to_string()) is Ok of a value equal to v: with commit None
\* the text is "vM.m.p-extra" and parses back with commit None, with commit
\* Some(c) it is "vM.m.p-extra-g<hex>" and parses back with Some(c).
TextRoundTrip ==
    /\ (src = "semver" /\ pc \in {"to_string", "from_str"}) =>
        /\ Len(split(Tail(revstr))) = (IF self.commit = None THEN 4 ELSE 5)
        /\ revstr[1] = "v"
        /\ is_some(self.commit) <=> (\E i \in 1..Len(revstr) : revstr[i] = "g")
    /\ (src = "semver" /\ pc = "from_str") =>
        /\ parsed.ok
        /\ parsed.val[1] = self
        /\ eq(parsed.val[1], self)

\* C10 witness: a SemVer with commit Some(0x123abc), whose hex has fewer
\* than eight digits, has been rendered and parsed back.
TextRoundTripReached ==
    /\ src = "semver" /\ pc = "from_str"
    /\ self.commit = Some(U32(18, 15036))
    /\ self.extra = 0
    /\ parsed.ok
    /\ parsed.val[1].commit = Some(U32(18, 15036))

=============================================================================
